---- MODULE Spec2Model ----
(***************************************************************************)
(* Model of the two assistant edge functions (health-coach-assistant and   *)
(* excursion-creator-assistant), the conversation store they write to and  *)
(* the remote thread service they call.  Every request is one run of the   *)
(* Deno.serve handler; each await of the handler is one step.              *)
(*                                                                         *)
(* Texts are sequences of tokens, so that concatenation, joining and       *)
(* template strings are computed and compared as the code computes them.   *)
(***************************************************************************)
EXTENDS Integers, Sequences, FiniteSets, TLC

\* ---------------------------------------------------------------- bounds
\* Number of requests received in one behaviour.
MaxRequests == 2

\* Number of status polls a request makes where requests run concurrently.
MaxConcurrentPolls == 1

\* ------------------------------------------------------ program constants
\* const maxAttempts = 30
maxAttempts == 30

\* The instances of the handler that can run at the same time.  An instance
\* serves one request at a time.
Handlers == {1, 2}
Users == {"u1", "u2"}
\* The Authorization header: absent, one that resolves to no user, or a user's.
Credentials == {"absent", "invalid"} \cup Users
Endpoints == {"health_coach", "excursion_creator"}

\* message texts of a request body; <<>> is the empty string
Messages == {<<>>, <<"Plan a beach day">>}

\* No conversationId in the body (undefined is falsy, as is "").
NoConversation == 0
\* A conversationId that is the id of no row.  Row ids are positive.
UnknownConversation == -1

\* ------------------------------------------------------------ userContext
NoContext ==
    [present |-> FALSE, healthGoals |-> <<>>, mobilityLevel |-> <<>>,
     preferredActivities |-> <<>>, hasLocation |-> FALSE, address |-> <<>>]

Context(goals, mobility, activities, hasLoc, addr) ==
    [present |-> TRUE, healthGoals |-> goals, mobilityLevel |-> mobility,
     preferredActivities |-> activities, hasLocation |-> hasLoc, address |-> addr]

\* userContext values of a request body: absent, a location with lat/lng
\* only, and every field filled.
UserContexts ==
    { NoContext,
      Context(<<>>, <<>>, <<>>, TRUE, <<>>),
      Context(<< <<"sleep">>, <<"fitness">> >>, <<"moderate">>,
              << <<"hiking">> >>, TRUE, <<"Santa Monica">>) }

\* ------------------------------------------------------------------ texts
RECURSIVE Join(_, _)
\* Array.prototype.join on an array of texts
Join(parts, sep) ==
    IF Len(parts) = 0 THEN <<>>
    ELSE IF Len(parts) = 1 THEN parts[1]
    ELSE parts[1] \o sep \o Join(Tail(parts), sep)

\* variant: a location is listed whether or not it has an address
contextInfoAnyLocation(userContext) ==
    (IF Len(userContext.healthGoals) > 0
       THEN << <<"Health Goals: ">> \o Join(userContext.healthGoals, <<", ">>) >>
       ELSE <<>>)
    \o (IF Len(userContext.mobilityLevel) > 0
          THEN << <<"Mobility Level: ">> \o userContext.mobilityLevel >>
          ELSE <<>>)
    \o (IF Len(userContext.preferredActivities) > 0
          THEN << <<"Preferred Activities: ">>
                  \o Join(userContext.preferredActivities, <<", ">>) >>
          ELSE <<>>)
    \o (IF userContext.hasLocation
          THEN << <<"Location: ">> \o userContext.address >>
          ELSE <<>>)

\* the contextInfo array after .filter(Boolean)
contextInfo(userContext) ==
    (IF Len(userContext.healthGoals) > 0
       THEN << <<"Health Goals: ">> \o Join(userContext.healthGoals, <<", ">>) >>
       ELSE <<>>)
    \o (IF Len(userContext.mobilityLevel) > 0
          THEN << <<"Mobility Level: ">> \o userContext.mobilityLevel >>
          ELSE <<>>)
    \o (IF Len(userContext.preferredActivities) > 0
          THEN << <<"Preferred Activities: ">>
                  \o Join(userContext.preferredActivities, <<", ">>) >>
          ELSE <<>>)
    \o (IF userContext.hasLocation /\ Len(userContext.address) > 0
          THEN << <<"Location: ">> \o userContext.address >>
          ELSE <<>>)

\* The text sent to the remote thread.  The health coach sends the message
\* as it is; the excursion creator appends the user context.
messageContent(endpoint, message, userContext) ==
    IF endpoint = "excursion_creator" /\ userContext.present
         /\ Len(contextInfo(userContext)) > 0
      THEN message \o <<"\n\nUser Context:\n">>
             \o Join(contextInfo(userContext), <<"\n">>)
      ELSE message

\* the assistant_type an endpoint writes into a new conversation row
assistantType(endpoint) == endpoint

\* variant: both handlers read the health coach's variable
assistantIdVarHealthCoach(endpoint) == "HEALTH_COACH_ASSISTANT_ID"

\* the environment variable holding the endpoint's assistant id
assistantIdVar(endpoint) ==
    IF endpoint = "health_coach" THEN "HEALTH_COACH_ASSISTANT_ID"
    ELSE "EXCURSION_CREATOR_ASSISTANT_ID"

assistantIdError(endpoint) ==
    IF endpoint = "health_coach" THEN "Health Coach Assistant ID not configured"
    ELSE "Excursion Creator Assistant ID not configured"


\* ------------------------------------------------------- remote run status
\* The statuses the loop treats alike: every string that is none of the four
\* it names.
NonTerminalStatuses == {"in_progress", "requires_action"}
FailedStatuses == {"failed", "cancelled", "expired"}
RunStatuses == NonTerminalStatuses \cup {"completed"} \cup FailedStatuses

\* What a run leaves on its thread when it completes: nothing, an assistant
\* message with a text part, or an assistant message without one.
RunOutputs == {"none", "text", "image"}

\* ---------------------------------------------------------------- state
VARIABLES
    env,                \* Deno.env: OPENAI_API_KEY and the two assistant ids
    conversations,      \* table conversations: set of rows
    messages,           \* table messages: rows in created_at order
    nextConvId,         \* next fresh conversations.id
    nextMsgId,          \* next fresh messages.id
    threads,            \* remote threads: thread id -> messages, oldest first
    runs,               \* remote runs: run id -> [thread_id, assistant_id]
    pc,                 \* per request: the await it stands at
    request,            \* per request: method, credential and body
    threadId,           \* per request: let threadId
    dbConversationId,   \* per request: let dbConversationId
    runId,              \* per request: run.id
    runStatus,          \* per request: let runStatus
    attempts,           \* per request: let attempts
    assistantResponse,  \* per request: const assistantResponse
    responses,          \* per request: the Responses returned
    trace,              \* per request: store and remote calls made, except polls
    polls,              \* per request: number of run status polls issued
    served,             \* number of requests received so far
    chat,               \* ChatInterface: its state, its position and its sends
    input               \* ChatInput: its state and its onSend calls

storeVars == <<conversations, messages, nextConvId, nextMsgId>>
remoteVars == <<threads, runs>>
resolveVars == <<threadId, dbConversationId>>
runVars == <<runId, runStatus, attempts>>
vars == <<env, conversations, messages, nextConvId, nextMsgId, threads, runs,
          pc, request, threadId, dbConversationId, runId, runStatus, attempts,
          assistantResponse, responses, trace, polls, served, chat, input>>

\* ChatInterface as it is mounted without a conversationId: useState([]),
\* useState(initialConversationId), useState(null); no send in progress.
\* sends and results list the sendMessage calls made and how they settled.
ChatMounted(type) ==
    [assistantType |-> type, messages |-> <<>>, conversationId |-> NoConversation,
     error |-> "", pc |-> "idle", optimistic |-> <<>>, message |-> <<>>,
     session |-> FALSE, fetches |-> 0, returned |-> NoConversation,
     sends |-> <<>>, results |-> <<>>]

\* ChatInput as it is mounted: useState(''), useState(false), disabled = false.
\* calls lists the arguments of the onSend calls, pending counts those that
\* have not settled.
InputMounted ==
    [message |-> <<>>, isSending |-> FALSE, disabled |-> FALSE,
     calls |-> <<>>, pending |-> 0]

NoRequest ==
    [method |-> "POST", credential |-> "absent", endpoint |-> "health_coach",
     message |-> <<>>, conversationId |-> NoConversation, userContext |-> NoContext]

Init ==
    /\ env \in [ {"OPENAI_API_KEY", "HEALTH_COACH_ASSISTANT_ID",
                  "EXCURSION_CREATOR_ASSISTANT_ID"} -> BOOLEAN ]
    /\ conversations = {}
    /\ messages = <<>>
    /\ nextConvId = 1
    /\ nextMsgId = 1
    /\ threads = <<>>
    /\ runs = <<>>
    /\ pc = [r \in Handlers |-> "idle"]
    /\ request = [r \in Handlers |-> NoRequest]
    /\ threadId = [r \in Handlers |-> 0]
    /\ dbConversationId = [r \in Handlers |-> 0]
    /\ runId = [r \in Handlers |-> 0]
    /\ runStatus = [r \in Handlers |-> ""]
    /\ attempts = [r \in Handlers |-> 0]
    /\ assistantResponse = [r \in Handlers |-> <<>>]
    /\ responses = [r \in Handlers |-> <<>>]
    /\ trace = [r \in Handlers |-> <<>>]
    /\ polls = [r \in Handlers |-> 0]
    /\ served = 0
    /\ chat = ChatMounted("health_coach")
    /\ input = InputMounted

\* ------------------------------------------------------------- responses
\* new Response(null, {status: 200, headers: corsHeaders})
PreflightResponse ==
    [status |-> 200, body |-> "null", error |-> "", response |-> <<>>,
     conversationId |-> 0, threadId |-> 0]

\* new Response(JSON.stringify(responseData), {headers}): status defaults to 200
ChatResponse(text, conv, thread) ==
    [status |-> 200, body |-> "chat", error |-> "", response |-> text,
     conversationId |-> conv, threadId |-> thread]

\* variant: the catch block leaves the status at its default
ErrorResponseDefaultStatus(e) ==
    [status |-> 200, body |-> "error",
     error |-> IF e.isError THEN e.message ELSE "An unknown error occurred",
     response |-> <<>>, conversationId |-> 0, threadId |-> 0]

\* the catch block: every thrown value becomes one status-500 JSON body
ErrorResponse(e) ==
    [status |-> 500, body |-> "error",
     error |-> IF e.isError THEN e.message ELSE "An unknown error occurred",
     response |-> <<>>, conversationId |-> 0, threadId |-> 0]

\* throw new Error(message)
Error(message) == [isError |-> TRUE, message |-> message]

\* The error object of a failed store call, thrown as it is.  Whether it is an
\* instance of Error is the client library's choice.
StoreErrors == {[isError |-> b, message |-> "store error"] : b \in BOOLEAN}

\* return from the handler with a Response
Respond(r, resp) ==
    /\ pc' = [pc EXCEPT ![r] = "done"]
    /\ responses' = [responses EXCEPT ![r] = Append(@, resp)]

\* variant: the first failure of a request is not thrown and the call is
\* made again
ThrowAfterOneRetry(r, e) ==
    IF (\A i \in DOMAIN trace[r] : trace[r][i].ok) /\ polls[r] = attempts[r]
      THEN UNCHANGED <<pc, responses>>
      ELSE Respond(r, ErrorResponse(e))

\* a throw inside the try block, caught by the catch block
Throw(r, e) == Respond(r, ErrorResponse(e))

\* One entry of a request's call trace: the call, whether it succeeded, and
\* the thread, the conversation id, the message row id and the text it carried
\* (0 or <<>> where the call has none).
Call(op, ok, thread, conv, row, text) ==
    [op |-> op, ok |-> ok, thread |-> thread, conv |-> conv, row |-> row,
     text |-> text]

Log(r, call) == trace' = [trace EXCEPT ![r] = Append(@, call)]

\* the user a credential resolves to (supabase.auth.getUser)
user(r) == request[r].credential

\* ------------------------------------------------------------ the store
\* policy "Users can view own conversations": USING (auth.uid() = user_id)
visibleConversations(uid) == {c \in conversations : c.user_id = uid}

\* .from("conversations").select("id, thread_id").eq("id", id)
\*   .eq("user_id", uid).maybeSingle(): the rows it yields (id is the primary key)
selectConversation(id, uid) ==
    {c \in visibleConversations(uid) : c.id = id /\ c.user_id = uid}

\* variant: a conversation takes no insert while a request stands between its
\* insert and its append
mayInsertMessageExclusive(conv, uid) ==
    /\ \E c \in conversations : c.id = conv /\ c.user_id = uid
    /\ \A h \in Handlers :
         ~(pc[h] = "appendMessage" /\ dbConversationId[h] = conv)

\* variant: an insert is accepted whatever conversation it names
mayInsertMessageUnchecked(conv, uid) == TRUE

\* policy "Users can create messages in own conversations", which also covers
\* the foreign key conversation_id -> conversations.id
mayInsertMessage(conv, uid) ==
    \E c \in conversations : c.id = conv /\ c.user_id = uid

\* a row of table messages
MessageRow(id, conv, role, content) ==
    [id |-> id, conversation_id |-> conv, role |-> role, content |-> content]

\* variant: the insert replaces the row of the same conversation and role
insertRowUpsert(table, row) ==
    Append(SelectSeq(table, LAMBDA m : ~(m.conversation_id = row.conversation_id
                                          /\ m.role = row.role)),
           row)

\* .from("messages").insert({...}): the table gets one more row
insertRow(table, row) == Append(table, row)

\* ----------------------------------------------------- the remote service
\* a message of a remote thread; content is its list of parts
RemoteMessage(role, parts, run) == [role |-> role, content |-> parts, run_id |-> run]

TextPart(text) == [type |-> "text", value |-> text]
ImagePart == [type |-> "image_file", value |-> <<>>]

\* the reply text run number run generates
ReplyText(run) == <<"reply of run ", ToString(run)>>

\* the thread after a run completed on it with the given output
threadAfterRun(thread, run, output) ==
    IF output = "text"
      THEN Append(thread, RemoteMessage("assistant", <<TextPart(ReplyText(run))>>, run))
    ELSE IF output = "image"
      THEN Append(thread, RemoteMessage("assistant", <<ImagePart>>, run))
    ELSE thread

RECURSIVE Reverse(_)
Reverse(s) == IF s = <<>> THEN <<>> ELSE Append(Reverse(Tail(s)), Head(s))

\* GET /threads/{id}/messages lists the newest message first
listMessages(thread) == Reverse(threads[thread])

RECURSIVE find(_, _, _)
\* Array.prototype.find over records: the first element whose field has the
\* value, as a sequence of zero or one element
find(s, field, value) ==
    IF s = <<>> THEN <<>>
    ELSE IF Head(s)[field] = value THEN <<Head(s)>>
    ELSE find(Tail(s), field, value)

\* ------------------------------------------------------------ the handler
\* the userContext values the endpoint's handler can bind: the health coach
\* destructures message and conversationId only
BoundContexts(endpoint) ==
    IF endpoint = "excursion_creator" THEN UserContexts ELSE {NoContext}

\* The requests the endpoints can receive.  A preflight carries no body.
Requests ==
    { [method |-> "OPTIONS", credential |-> "absent", endpoint |-> e,
       message |-> <<>>, conversationId |-> NoConversation,
       userContext |-> NoContext] : e \in Endpoints }
    \cup
    { req \in [method : {"POST"}, credential : Credentials, endpoint : Endpoints,
               message : Messages,
               conversationId : {NoConversation, UnknownConversation}
                                  \cup {c.id : c \in conversations},
               userContext : UserContexts] :
        req.userContext \in BoundContexts(req.endpoint) }

\* variant: the body is checked before the caller
validationErrorMessageFirst(req) ==
    IF req.message = <<>> THEN <<Error("Message is required")>>
    ELSE IF req.credential = "absent" THEN <<Error("No authorization header")>>
    ELSE IF req.credential \notin Users THEN <<Error("Unauthorized")>>
    ELSE IF ~env["OPENAI_API_KEY"] THEN <<Error("OpenAI API key not configured")>>
    ELSE <<>>

\* the checks before thread resolution: the first that fails throws
validationError(req) ==
    IF req.credential = "absent" THEN <<Error("No authorization header")>>
    ELSE IF req.credential \notin Users THEN <<Error("Unauthorized")>>
    ELSE IF req.message = <<>> THEN <<Error("Message is required")>>
    ELSE IF ~env["OPENAI_API_KEY"] THEN <<Error("OpenAI API key not configured")>>
    ELSE <<>>

\* if (conversationId) ... else ...
pcAfterValidation(req) ==
    IF req.conversationId # NoConversation THEN "selectConversation"
    ELSE "createThread"

\* A request arrives at a free instance, which starts with fresh locals: the
\* preflight answer, or the checks of the credential, the message and the key.
Receive(r) ==
    /\ pc[r] \in {"idle", "done"}
    /\ served < MaxRequests
    /\ served' = served + 1
    /\ threadId' = [threadId EXCEPT ![r] = 0]
    /\ dbConversationId' = [dbConversationId EXCEPT ![r] = 0]
    /\ runId' = [runId EXCEPT ![r] = 0]
    /\ runStatus' = [runStatus EXCEPT ![r] = ""]
    /\ attempts' = [attempts EXCEPT ![r] = 0]
    /\ assistantResponse' = [assistantResponse EXCEPT ![r] = <<>>]
    /\ trace' = [trace EXCEPT ![r] = <<>>]
    /\ polls' = [polls EXCEPT ![r] = 0]
    /\ \E req \in Requests :
         /\ request' = [request EXCEPT ![r] = req]
         /\ IF req.method = "OPTIONS"
              THEN /\ pc' = [pc EXCEPT ![r] = "done"]
                   /\ responses' = [responses EXCEPT ![r] = <<PreflightResponse>>]
            ELSE IF validationError(req) # <<>>
              THEN /\ pc' = [pc EXCEPT ![r] = "done"]
                   /\ responses' = [responses EXCEPT ![r] =
                                      <<ErrorResponse(validationError(req)[1])>>]
            ELSE /\ pc' = [pc EXCEPT ![r] = pcAfterValidation(req)]
                 /\ responses' = [responses EXCEPT ![r] = <<>>]
    /\ UNCHANGED <<env, chat, input, storeVars, remoteVars>>

\* variant: the message goes to the remote thread before it is saved
pcAfterResolutionAppendFirst == "appendMessage"

\* With threadId and dbConversationId set, the handler saves the user message.
pcAfterResolution == "insertUserMessage"

\* variant: a thread is created also for a conversation that was found
pcAfterSelectAlwaysCreate(found) == "createThread"

\* variant: a row is inserted also for a conversation that was found
pcAfterSelectInsertAgain(found) ==
    IF found # {} THEN "insertConversation" ELSE "createThread"

\* variant: the handler goes on with a conversation that was not found
pcAfterSelectNeverCreate(found) == pcAfterResolution

\* if (conversation) ... else ...
pcAfterSelect(found) ==
    IF found # {} THEN pcAfterResolution ELSE "createThread"

\* Look the conversation up by id and owner.
SelectConversation(r) ==
    /\ pc[r] = "selectConversation"
    /\ \/ \E e \in StoreErrors :
            /\ Throw(r, e)
            /\ Log(r, Call("selectConversation", FALSE, 0,
                           request[r].conversationId, 0, <<>>))
            /\ UNCHANGED resolveVars
       \/ LET found == selectConversation(request[r].conversationId, user(r)) IN
            /\ pc' = [pc EXCEPT ![r] = pcAfterSelect(found)]
            /\ IF found # {}
                 THEN LET conversation == CHOOSE c \in found : TRUE IN
                        /\ threadId' = [threadId EXCEPT ![r] = conversation.thread_id]
                        /\ dbConversationId' =
                             [dbConversationId EXCEPT ![r] = conversation.id]
                 ELSE UNCHANGED resolveVars
            /\ Log(r, Call("selectConversation", TRUE, 0,
                           request[r].conversationId, 0, <<>>))
            /\ UNCHANGED responses
    /\ UNCHANGED <<env, chat, input, storeVars, remoteVars, request, runVars,
                   assistantResponse, polls, served>>

\* POST /threads
CreateThread(r) ==
    /\ pc[r] = "createThread"
    /\ \/ /\ Throw(r, Error("Failed to create OpenAI thread"))
          /\ Log(r, Call("createThread", FALSE, 0, 0, 0, <<>>))
          /\ UNCHANGED <<threads, threadId>>
       \/ LET thread == Len(threads) + 1 IN
            /\ threads' = Append(threads, <<>>)
            /\ threadId' = [threadId EXCEPT ![r] = thread]
            /\ pc' = [pc EXCEPT ![r] = "insertConversation"]
            /\ Log(r, Call("createThread", TRUE, thread, 0, 0, <<>>))
            /\ UNCHANGED responses
    /\ UNCHANGED <<env, chat, input, storeVars, runs, request, dbConversationId, runVars,
                   assistantResponse, polls, served>>

\* variant: the row carries the other endpoint's literal
newConversationHealthCoach(r, id) ==
    [id |-> id, user_id |-> user(r), assistant_type |-> "health_coach",
     thread_id |-> threadId[r]]

\* the row a request inserts into conversations
newConversation(r, id) ==
    [id |-> id, user_id |-> user(r),
     assistant_type |-> assistantType(request[r].endpoint),
     thread_id |-> threadId[r]]

\* Insert the conversation row binding the caller, the type and the thread.
InsertConversation(r) ==
    /\ pc[r] = "insertConversation"
    /\ \/ \E e \in StoreErrors :
            /\ Throw(r, e)
            /\ Log(r, Call("insertConversation", FALSE, threadId[r], 0, 0, <<>>))
            /\ UNCHANGED <<conversations, nextConvId, dbConversationId>>
       \/ /\ conversations' = conversations \cup {newConversation(r, nextConvId)}
          /\ nextConvId' = nextConvId + 1
          /\ dbConversationId' = [dbConversationId EXCEPT ![r] = nextConvId]
          /\ pc' = [pc EXCEPT ![r] = pcAfterResolution]
          /\ Log(r, Call("insertConversation", TRUE, threadId[r], nextConvId, 0, <<>>))
          /\ UNCHANGED responses
    /\ UNCHANGED <<env, chat, input, messages, nextMsgId, remoteVars, request, threadId,
                   runVars, assistantResponse, polls, served>>

\* variant: the row holds the text built for the remote thread
userMessageEnriched(r, id) ==
    MessageRow(id, dbConversationId[r], "user",
               messageContent(request[r].endpoint, request[r].message,
                              request[r].userContext))

\* variant: the inbound message is saved with the role of the reply
userMessageAsAssistant(r, id) ==
    MessageRow(id, dbConversationId[r], "assistant", request[r].message)

\* the row of the inbound message: content is the message of the body
userMessage(r, id) ==
    MessageRow(id, dbConversationId[r], "user", request[r].message)

\* Save the user message.
InsertUserMessage(r) ==
    /\ pc[r] = "insertUserMessage"
    /\ \/ \E e \in StoreErrors :
            /\ Throw(r, e)
            /\ Log(r, Call("insertUserMessage", FALSE, 0,
                           userMessage(r, nextMsgId).conversation_id, 0,
                           userMessage(r, nextMsgId).content))
            /\ UNCHANGED <<messages, nextMsgId>>
       \/ /\ mayInsertMessage(userMessage(r, nextMsgId).conversation_id, user(r))
          /\ messages' = insertRow(messages, userMessage(r, nextMsgId))
          /\ nextMsgId' = nextMsgId + 1
          /\ pc' = [pc EXCEPT ![r] = "appendMessage"]
          /\ Log(r, Call("insertUserMessage", TRUE, 0,
                         userMessage(r, nextMsgId).conversation_id, nextMsgId,
                         userMessage(r, nextMsgId).content))
          /\ UNCHANGED responses
    /\ UNCHANGED <<env, chat, input, conversations, nextConvId, remoteVars, request,
                   resolveVars, runVars, assistantResponse, polls, served>>

\* the text of the body sent to POST /threads/{threadId}/messages
appendedText(r) ==
    messageContent(request[r].endpoint, request[r].message, request[r].userContext)

\* variant: the response of the append call is not looked at
appendFailedNever(ok) == FALSE

\* if (!addMessageResponse.ok)
appendFailed(ok) == ~ok

\* POST /threads/{threadId}/messages, then the lookup of the assistant id
AppendMessage(r) ==
    /\ pc[r] = "appendMessage"
    /\ \E ok \in BOOLEAN :
         /\ Log(r, Call("appendMessage", ok, threadId[r], 0, 0, appendedText(r)))
         /\ IF ok
              THEN threads' = [threads EXCEPT ![threadId[r]] =
                                 Append(@, RemoteMessage("user",
                                                         <<TextPart(appendedText(r))>>, 0))]
              ELSE UNCHANGED threads
         /\ IF appendFailed(ok)
              THEN Throw(r, Error("Failed to add message to thread"))
            ELSE IF ~env[assistantIdVar(request[r].endpoint)]
              THEN Throw(r, Error(assistantIdError(request[r].endpoint)))
            ELSE /\ pc' = [pc EXCEPT ![r] = "createRun"]
                 /\ UNCHANGED responses
    /\ UNCHANGED <<env, chat, input, storeVars, runs, request, resolveVars, runVars,
                   assistantResponse, polls, served>>

\* variant: the loop runs to its bound whatever the status
loopConditionIgnoresStatus(status, n) == n < maxAttempts

\* variant: the bound of the loop is off by one
loopConditionInclusive(status, n) == status # "completed" /\ n <= maxAttempts

\* while (runStatus !== "completed" && attempts < maxAttempts)
loopCondition(status, n) == status # "completed" /\ n < maxAttempts

\* variant: only "failed" ends the loop
isTerminalFailureOnlyFailed(status) == status = "failed"

\* the throw inside the loop body, after attempts++
isTerminalFailure(status) == status \in FailedStatuses

\* `Assistant run ${runStatus}`
runFailedMessage(status) == "Assistant run " \o status

\* variant: the run is not waited for
AfterStatusNoWait(r, status, n) ==
    /\ pc' = [pc EXCEPT ![r] = "listMessages"]
    /\ UNCHANGED responses

\* variant: an exhausted loop goes on to the listing
AfterStatusListsOnTimeout(r, status, n) ==
    IF loopCondition(status, n)
      THEN /\ pc' = [pc EXCEPT ![r] = "pollRun"]
           /\ UNCHANGED responses
      ELSE /\ pc' = [pc EXCEPT ![r] = "listMessages"]
           /\ UNCHANGED responses

\* Where the handler stands after it observed a run status: in the loop,
\* past it with a completed run, or at the timeout throw.
AfterStatus(r, status, n) ==
    IF loopCondition(status, n)
      THEN /\ pc' = [pc EXCEPT ![r] = "pollRun"]
           /\ UNCHANGED responses
    ELSE IF status # "completed"
      THEN Throw(r, Error("Assistant run timed out"))
    ELSE /\ pc' = [pc EXCEPT ![r] = "listMessages"]
         /\ UNCHANGED responses

\* The remote side of a status report: a run reported completed has left its
\* output on the thread.
RemoteRun(thread, run, status) ==
    IF status = "completed"
      THEN \E output \in RunOutputs :
             threads' = [threads EXCEPT ![thread] = threadAfterRun(@, run, output)]
      ELSE UNCHANGED threads

\* POST /threads/{threadId}/runs and the first test of the loop condition
CreateRun(r) ==
    /\ pc[r] = "createRun"
    /\ \/ /\ Throw(r, Error("Failed to run assistant"))
          /\ Log(r, Call("createRun", FALSE, threadId[r], 0, 0, <<>>))
          /\ UNCHANGED <<remoteVars, runVars>>
       \/ \E status \in RunStatuses :
            LET run == Len(runs) + 1 IN
            /\ runs' = Append(runs, [thread_id |-> threadId[r],
                                     assistant_id |-> assistantIdVar(request[r].endpoint)])
            /\ RemoteRun(threadId[r], run, status)
            /\ runId' = [runId EXCEPT ![r] = run]
            /\ runStatus' = [runStatus EXCEPT ![r] = status]
            /\ attempts' = [attempts EXCEPT ![r] = 0]
            /\ Log(r, Call("createRun", TRUE, threadId[r], 0, 0, <<>>))
            /\ AfterStatus(r, status, 0)
    /\ UNCHANGED <<env, chat, input, storeVars, request, resolveVars, assistantResponse, polls, served>>

\* One pass of the loop body: GET /threads/{threadId}/runs/{run.id}
PollRun(r) ==
    /\ pc[r] = "pollRun"
    /\ polls' = [polls EXCEPT ![r] = @ + 1]
    /\ \/ /\ Throw(r, Error("Failed to check run status"))
          /\ UNCHANGED <<threads, runStatus, attempts>>
       \/ \E status \in RunStatuses :
            /\ RemoteRun(threadId[r], runId[r], status)
            /\ runStatus' = [runStatus EXCEPT ![r] = status]
            /\ attempts' = [attempts EXCEPT ![r] = @ + 1]
            /\ IF isTerminalFailure(status)
                 THEN Throw(r, Error(runFailedMessage(status)))
                 ELSE AfterStatus(r, status, attempts[r] + 1)
    /\ UNCHANGED <<env, chat, input, storeVars, runs, request, resolveVars, runId,
                   assistantResponse, trace, served>>

\* variant: the reply is looked for in the first assistant message that has
\* a text part
extractReplyFallThrough(data) ==
    LET withText == SelectSeq(data, LAMBDA m :
                        m.role = "assistant" /\ find(m.content, "type", "text") # <<>>)
    IN
    IF withText = <<>>
      THEN [ok |-> FALSE, text |-> <<>>, error |-> "No assistant response found"]
      ELSE [ok |-> TRUE, text |-> find(withText[1].content, "type", "text")[1].value,
            error |-> ""]

\* the outcome of reading the listing: the reply text, or the error thrown
extractReply(data) ==
    LET assistantMessage == find(data, "role", "assistant") IN
    IF assistantMessage = <<>>
      THEN [ok |-> FALSE, text |-> <<>>, error |-> "No assistant response found"]
    ELSE LET textContent == find(assistantMessage[1].content, "type", "text") IN
         IF textContent = <<>>
           THEN [ok |-> FALSE, text |-> <<>>,
                 error |-> "No text content in assistant response"]
           ELSE [ok |-> TRUE, text |-> textContent[1].value, error |-> ""]

\* GET /threads/{threadId}/messages and the extraction of the reply
ListMessages(r) ==
    /\ pc[r] = "listMessages"
    /\ \/ /\ Throw(r, Error("Failed to retrieve messages"))
          /\ Log(r, Call("listMessages", FALSE, threadId[r], 0, 0, <<>>))
          /\ UNCHANGED assistantResponse
       \/ LET reply == extractReply(listMessages(threadId[r])) IN
            /\ Log(r, Call("listMessages", TRUE, threadId[r], 0, 0, <<>>))
            /\ IF reply.ok
                 THEN /\ assistantResponse' = [assistantResponse EXCEPT ![r] = reply.text]
                      /\ pc' = [pc EXCEPT ![r] = "insertAssistantMessage"]
                      /\ UNCHANGED responses
                 ELSE /\ Throw(r, Error(reply.error))
                      /\ UNCHANGED assistantResponse
    /\ UNCHANGED <<env, chat, input, storeVars, remoteVars, request, resolveVars, runVars, polls, served>>

\* variant: the reply is saved with the role of the first insert
assistantMessageAsUser(r, id) ==
    MessageRow(id, dbConversationId[r], "user", assistantResponse[r])

\* the row of the reply
assistantMessage(r, id) ==
    MessageRow(id, dbConversationId[r], "assistant", assistantResponse[r])

\* variant: the response echoes the conversationId of the request body
responseDataEchoesRequest(r) ==
    ChatResponse(assistantResponse[r], request[r].conversationId, threadId[r])

\* const responseData = {response, conversationId, threadId}
responseData(r) ==
    ChatResponse(assistantResponse[r], dbConversationId[r], threadId[r])

\* Save the assistant message and return the response.
InsertAssistantMessage(r) ==
    /\ pc[r] = "insertAssistantMessage"
    /\ \/ \E e \in StoreErrors :
            /\ Throw(r, e)
            /\ Log(r, Call("insertAssistantMessage", FALSE, 0,
                           assistantMessage(r, nextMsgId).conversation_id, 0,
                           assistantMessage(r, nextMsgId).content))
            /\ UNCHANGED <<messages, nextMsgId>>
       \/ /\ mayInsertMessage(assistantMessage(r, nextMsgId).conversation_id, user(r))
          /\ messages' = insertRow(messages, assistantMessage(r, nextMsgId))
          /\ nextMsgId' = nextMsgId + 1
          /\ Log(r, Call("insertAssistantMessage", TRUE, 0,
                         assistantMessage(r, nextMsgId).conversation_id, nextMsgId,
                         assistantMessage(r, nextMsgId).content))
          /\ Respond(r, responseData(r))
    /\ UNCHANGED <<env, chat, input, conversations, nextConvId, remoteVars, request,
                   resolveVars, runVars, assistantResponse, polls, served>>

\* ------------------------------------------------------- specification
\* the steps of instance r
Handler(r) ==
    \/ Receive(r)
    \/ SelectConversation(r)
    \/ CreateThread(r)
    \/ InsertConversation(r)
    \/ InsertUserMessage(r)
    \/ AppendMessage(r)
    \/ CreateRun(r)
    \/ PollRun(r)
    \/ ListMessages(r)
    \/ InsertAssistantMessage(r)

\* Requests served one after the other, by one instance.
Next == Handler(1)

Spec == Init /\ [][Next]_vars

\* The store and the remote service after one health-coach exchange of user
\* u1: conversation 1 on thread 1, holding the message and the reply of run 1.
InitConcurrent ==
    /\ env = [v \in {"OPENAI_API_KEY", "HEALTH_COACH_ASSISTANT_ID",
                      "EXCURSION_CREATOR_ASSISTANT_ID"} |-> TRUE]
    /\ conversations = {[id |-> 1, user_id |-> "u1",
                         assistant_type |-> assistantType("health_coach"),
                         thread_id |-> 1]}
    /\ messages = <<MessageRow(1, 1, "user", <<"Plan a beach day">>),
                    MessageRow(2, 1, "assistant", ReplyText(1))>>
    /\ nextConvId = 2
    /\ nextMsgId = 3
    /\ threads = << threadAfterRun(
                      <<RemoteMessage("user", <<TextPart(<<"Plan a beach day">>)>>, 0)>>,
                      1, "text") >>
    /\ runs = <<[thread_id |-> 1, assistant_id |-> assistantIdVar("health_coach")]>>
    /\ pc = [r \in Handlers |-> "idle"]
    /\ request = [r \in Handlers |-> NoRequest]
    /\ threadId = [r \in Handlers |-> 0]
    /\ dbConversationId = [r \in Handlers |-> 0]
    /\ runId = [r \in Handlers |-> 0]
    /\ runStatus = [r \in Handlers |-> ""]
    /\ attempts = [r \in Handlers |-> 0]
    /\ assistantResponse = [r \in Handlers |-> <<>>]
    /\ responses = [r \in Handlers |-> <<>>]
    /\ trace = [r \in Handlers |-> <<>>]
    /\ polls = [r \in Handlers |-> 0]
    /\ served = 0
    /\ chat = ChatMounted("health_coach")
    /\ input = InputMounted

\* The requests followed where requests overlap: chat requests that pass the
\* checks before thread resolution and carry no userContext.
ConcurrentRequests ==
    {req \in Requests :
        /\ req.method = "POST"
        /\ validationError(req) = <<>>
        /\ req.userContext = NoContext}

\* The run statuses followed where requests overlap: one of each kind the
\* loop tells apart.
ConcurrentStatuses == {"", "in_progress", "completed", "failed"}

\* A request arrives while the other instance may be serving one.
ReceiveConcurrent(r) ==
    /\ Receive(r)
    /\ request'[r] \in ConcurrentRequests

\* The run output followed where requests overlap: a run seen completed has
\* left a text reply.
ConcurrentOutput(r) ==
    runStatus'[r] = "completed" =>
        threads'[threadId[r]] = threadAfterRun(threads[threadId[r]], runId'[r], "text")

\* The run is created, with a status of ConcurrentStatuses.
CreateRunConcurrent(r) ==
    /\ CreateRun(r)
    /\ runStatus'[r] \in ConcurrentStatuses
    /\ ConcurrentOutput(r)

\* One poll of at most MaxConcurrentPolls, with a status of ConcurrentStatuses.
PollRunConcurrent(r) ==
    /\ PollRun(r)
    /\ polls'[r] <= MaxConcurrentPolls
    /\ runStatus'[r] \in ConcurrentStatuses
    /\ polls'[r] = attempts'[r] => ConcurrentOutput(r)

\* the steps of instance r while the other instance runs
HandlerConcurrent(r) ==
    \/ ReceiveConcurrent(r)
    \/ SelectConversation(r)
    \/ CreateThread(r)
    \/ InsertConversation(r)
    \/ InsertUserMessage(r)
    \/ AppendMessage(r)
    \/ CreateRunConcurrent(r)
    \/ PollRunConcurrent(r)
    \/ ListMessages(r)
    \/ InsertAssistantMessage(r)

\* Requests served by two instances at the same time: every await of one may
\* fall between two awaits of the other.
NextConcurrent == \E r \in Handlers : HandlerConcurrent(r)

SpecConcurrent == InitConcurrent /\ [][NextConcurrent]_vars

\* ------------------------------------------------- runs that outlive a request
\* the request ended at the throw after the loop
TimedOut(r) ==
    /\ pc[r] = "done" /\ Len(responses[r]) = 1
    /\ responses[r][1].error = "Assistant run timed out"

\* the thread holds a message generated by the run
RunReplied(run) ==
    \E i \in DOMAIN threads[runs[run].thread_id] :
        threads[runs[run].thread_id][i].run_id = run

\* The run of a request that gave up at the timeout goes on at the remote
\* service, which the handler never tells to cancel it: it completes and
\* leaves its output on the thread.
LateCompletion(r) ==
    /\ TimedOut(r)
    /\ runId[r] # 0
    /\ ~RunReplied(runId[r])
    /\ \E output \in RunOutputs \ {"none"} :
         threads' = [threads EXCEPT ![threadId[r]] =
                       threadAfterRun(@, runId[r], output)]
    /\ UNCHANGED <<env, chat, input, storeVars, runs, pc, request, resolveVars, runVars,
                   assistantResponse, responses, trace, polls, served>>

\* Requests served one after the other, with runs that complete late.
NextLate == Handler(1) \/ LateCompletion(1)

SpecLate == Init /\ [][NextLate]_vars

\* ------------------------------------------------- the text sent to the thread
\* userContext values of a request body, field by field: no, one or two
\* goals and activities, a mobility level or none, no location, a location
\* with lat/lng only, and one with an address
ContentContexts ==
    {NoContext} \cup
    ({ Context(g, m, a, l, ad) :
        g \in {<<>>, << <<"sleep">> >>, << <<"sleep">>, <<"fitness">> >>},
        m \in {<<>>, <<"moderate">>},
        a \in {<<>>, << <<"hiking">> >>, << <<"hiking">>, <<"kayaking">> >>},
        l \in BOOLEAN,
        ad \in {<<>>, <<"Santa Monica">>} } \ 
    { Context(g, m, a, FALSE, <<"Santa Monica">>) :
        g \in {<<>>, << <<"sleep">> >>, << <<"sleep">>, <<"fitness">> >>},
        m \in {<<>>, <<"moderate">>},
        a \in {<<>>, << <<"hiking">> >>, << <<"hiking">>, <<"kayaking">> >>} })

\* first messages of user u1 to either endpoint, with any userContext in the
\* body
ContentRequests ==
    [method : {"POST"}, credential : {"u1"}, endpoint : Endpoints,
     message : Messages \ {<<>>}, conversationId : {NoConversation},
     userContext : ContentContexts]

\* A handler that has resolved the thread of a first message and saved the
\* user message: it stands before the append.
InitContent ==
    /\ env = [v \in {"OPENAI_API_KEY", "HEALTH_COACH_ASSISTANT_ID",
                      "EXCURSION_CREATOR_ASSISTANT_ID"} |-> TRUE]
    /\ request \in [Handlers -> ContentRequests \cup {NoRequest}]
    /\ request[1] \in ContentRequests
    /\ request[2] = NoRequest
    /\ conversations = {[id |-> 1, user_id |-> "u1",
                         assistant_type |-> assistantType(request[1].endpoint),
                         thread_id |-> 1]}
    /\ messages = <<MessageRow(1, 1, "user", request[1].message)>>
    /\ nextConvId = 2
    /\ nextMsgId = 2
    /\ threads = << <<>> >>
    /\ runs = <<>>
    /\ pc = [r \in Handlers |-> IF r = 1 THEN "appendMessage" ELSE "idle"]
    /\ threadId = [r \in Handlers |-> IF r = 1 THEN 1 ELSE 0]
    /\ dbConversationId = [r \in Handlers |-> IF r = 1 THEN 1 ELSE 0]
    /\ runId = [r \in Handlers |-> 0]
    /\ runStatus = [r \in Handlers |-> ""]
    /\ attempts = [r \in Handlers |-> 0]
    /\ assistantResponse = [r \in Handlers |-> <<>>]
    /\ responses = [r \in Handlers |-> <<>>]
    /\ trace = [r \in Handlers |->
                  IF r = 1
                    THEN <<Call("createThread", TRUE, 1, 0, 0, <<>>),
                           Call("insertConversation", TRUE, 1, 1, 0, <<>>),
                           Call("insertUserMessage", TRUE, 0, 1, 1,
                                request[1].message)>>
                    ELSE <<>>]
    /\ polls = [r \in Handlers |-> 0]
    /\ served = 1
    /\ chat = ChatMounted("health_coach")
    /\ input = InputMounted

\* The handler builds the text and appends it.
NextContent == AppendMessage(1)

SpecContent == InitContent /\ [][NextContent]_vars

\* ------------------------------------------------------------ the client
\* variant: the delete policy does not look at the owner
deletableConversationsAnyOwner(id, uid) == {c \in conversations : c.id = id}

\* .from('conversations').delete().eq('id', conversationId) under policy
\* "Users can delete own conversations": the rows the statement deletes
deletableConversations(id, uid) ==
    {c \in conversations : c.id = id /\ c.user_id = uid}

\* conversation_id ... REFERENCES conversations(id) ON DELETE CASCADE: the
\* message rows left when the given conversation rows go
cascade(table, deleted) ==
    SelectSeq(table, LAMBDA m : \A c \in deleted : m.conversation_id # c.id)

\* the conversation ids a client can pass: those of rows, and one of no row
ConversationIds == {UnknownConversation} \cup {c.id : c \in conversations}

\* AssistantsAPI.deleteConversation(conversationId), called with the session
\* of user uid, when the statement returns no error
deleteConversation(uid, id) ==
    /\ conversations' = conversations \ deletableConversations(id, uid)
    /\ messages' = cascade(messages, deletableConversations(id, uid))
    /\ UNCHANGED <<env, chat, input, nextConvId, nextMsgId, remoteVars, pc, request,
                   resolveVars, runVars, assistantResponse, responses, trace,
                   polls, served>>

\* A client deletes a conversation.  A statement that returns an error makes
\* the call throw and deletes nothing.
DeleteConversation ==
    \E uid \in Users : \E id \in ConversationIds :
        \/ deleteConversation(uid, id)
        \/ UNCHANGED vars

\* A send served by one instance, while clients delete conversations.
NextClient == HandlerConcurrent(1) \/ DeleteConversation

SpecClient == InitConcurrent /\ [][NextClient]_vars

\* --------------------------------------------------------- ChatInterface
\* the user whose session the client holds
ChatUser == "u1"

\* the values Date.now() takes when a message is sent
Clock == {1, 2}

\* the id of a row of table messages, as the list shows it
StoreId(id) == [temp |-> FALSE, n |-> id]

\* `temp-${Date.now()}`
TempId(now) == [temp |-> TRUE, n |-> now]

\* conversationId || 'pending'
Pending == -2

\* const optimisticMessage = {id, conversation_id, role: 'user', content}
optimisticMessage(now, message, conversationId) ==
    [id |-> TempId(now),
     conversation_id |-> IF conversationId = NoConversation THEN Pending
                         ELSE conversationId,
     role |-> "user", content |-> message]

\* a row of table messages as getMessages returns it
DisplayRow(m) ==
    [id |-> StoreId(m.id), conversation_id |-> m.conversation_id,
     role |-> m.role, content |-> m.content]

RECURSIVE DisplayRows(_)
DisplayRows(rows) ==
    IF rows = <<>> THEN <<>>
    ELSE <<DisplayRow(Head(rows))>> \o DisplayRows(Tail(rows))

\* AssistantsAPI.getMessages(conversationId) with the session of user uid:
\* select * from messages where conversation_id = ... order by created_at,
\* under policy "Users can view own messages"
getMessages(uid, conversationId) ==
    DisplayRows(SelectSeq(messages, LAMBDA m :
        /\ m.conversation_id = conversationId
        /\ \E c \in visibleConversations(uid) : c.id = m.conversation_id))

\* variant: the catch block leaves the list as it is
removeOptimisticKeepsAll(list, id) == list

\* prev.filter(msg => msg.id !== optimisticMessage.id)
removeOptimistic(list, id) == SelectSeq(list, LAMBDA msg : msg.id # id)

\* variant: the conversation id of the response is not kept
conversationIdAfterSendNotKept(current, returned) == current

\* if (!conversationId) setConversationId(response.conversationId)
conversationIdAfterSend(current, returned) ==
    IF current = NoConversation THEN returned ELSE current

\* the request AssistantsAPI.sendMessage posts for the send in progress
ChatRequest ==
    [method |-> "POST", credential |-> ChatUser, endpoint |-> chat.assistantType,
     message |-> chat.message,
     conversationId |-> chat.sends[Len(chat.sends)].conversationId,
     userContext |-> NoContext]

\* the response the fetch resolves with
Fetched == responses[1][Len(responses[1])]

\* the catch block of handleSendMessage, entered from sendMessage (the send
\* is then listed as failed) or from getMessages
ChatCatch(message) ==
    chat' = [chat EXCEPT !.error = message,
                         !.messages = removeOptimistic(@, chat.optimistic[1]),
                         !.results = IF chat.pc = "sendMessage"
                                       THEN Append(@, [ok |-> FALSE,
                                                       conversationId |-> NoConversation])
                                       ELSE @,
                         !.pc = "idle"]

\* handleSendMessage(message) up to the fetch: the error is cleared, the
\* optimistic message is added, sendMessage reads the session and, if there
\* is one, posts the request.
ChatSend ==
    /\ chat.pc = "idle"
    /\ Len(chat.sends) < MaxRequests
    /\ \E now \in Clock : \E session \in BOOLEAN : \E message \in Messages \ {<<>>} :
         chat' = [chat EXCEPT
                    !.error = "",
                    !.optimistic = <<TempId(now)>>,
                    !.message = message,
                    !.messages = Append(@, optimisticMessage(now, message,
                                                             chat.conversationId)),
                    !.session = session,
                    !.fetches = IF session THEN @ + 1 ELSE @,
                    !.sends = Append(@, [conversationId |-> chat.conversationId]),
                    !.pc = "sendMessage"]
    /\ UNCHANGED <<env, input, storeVars, remoteVars, pc, request, resolveVars,
                   runVars, assistantResponse, responses, trace, polls, served>>

\* The endpoint receives the request the client posted.
ReceiveChat(r) ==
    /\ chat.pc = "sendMessage"
    /\ chat.session
    /\ served < chat.fetches
    /\ Receive(r)
    /\ request'[r] = ChatRequest

\* sendMessage settles: it throws without a session, when the fetch rejects
\* and when the response is not ok; otherwise it returns the response body,
\* and handleSendMessage keeps the conversation id and goes on to reload.
ChatSettle ==
    /\ chat.pc = "sendMessage"
    /\ IF ~chat.session
         THEN /\ ChatCatch("Not authenticated")
         ELSE /\ served = chat.fetches
              /\ pc[1] = "done"
              /\ \/ /\ ChatCatch("Network request failed")
                 \/ /\ Fetched.status # 200
                    /\ ChatCatch(IF Fetched.error # "" THEN Fetched.error
                                 ELSE "Failed to send message")
                 \/ /\ Fetched.status = 200
                    /\ chat' = [chat EXCEPT
                          !.conversationId =
                              conversationIdAfterSend(@, Fetched.conversationId),
                          !.returned = Fetched.conversationId,
                          !.results = Append(@, [ok |-> TRUE,
                                         conversationId |-> Fetched.conversationId]),
                          !.pc = "getMessages"]
    /\ UNCHANGED <<env, input, storeVars, remoteVars, pc, request, resolveVars,
                   runVars, assistantResponse, responses, trace, polls, served>>

\* getMessages(response.conversationId) settles: the list is replaced by the
\* rows returned, or the call throws and the catch block runs.
ChatReload ==
    /\ chat.pc = "getMessages"
    /\ \/ chat' = [chat EXCEPT !.messages = getMessages(ChatUser, chat.returned),
                                !.pc = "idle"]
       \/ ChatCatch("Failed to fetch messages: store error")
    /\ UNCHANGED <<env, input, storeVars, remoteVars, pc, request, resolveVars,
                   runVars, assistantResponse, responses, trace, polls, served>>

\* the steps of the instance that serves the client
HandlerChat(r) ==
    \/ ReceiveChat(r)
    \/ SelectConversation(r)
    \/ CreateThread(r)
    \/ InsertConversation(r)
    \/ InsertUserMessage(r)
    \/ AppendMessage(r)
    \/ CreateRunConcurrent(r)
    \/ PollRunConcurrent(r)
    \/ ListMessages(r)
    \/ InsertAssistantMessage(r)

\* A ChatInterface of either assistant type, mounted without a conversationId
\* over an empty store.
InitChat ==
    /\ env \in [ {"OPENAI_API_KEY", "HEALTH_COACH_ASSISTANT_ID",
                  "EXCURSION_CREATOR_ASSISTANT_ID"} -> BOOLEAN ]
    /\ conversations = {}
    /\ messages = <<>>
    /\ nextConvId = 1
    /\ nextMsgId = 1
    /\ threads = <<>>
    /\ runs = <<>>
    /\ pc = [r \in Handlers |-> "idle"]
    /\ request = [r \in Handlers |-> NoRequest]
    /\ threadId = [r \in Handlers |-> 0]
    /\ dbConversationId = [r \in Handlers |-> 0]
    /\ runId = [r \in Handlers |-> 0]
    /\ runStatus = [r \in Handlers |-> ""]
    /\ attempts = [r \in Handlers |-> 0]
    /\ assistantResponse = [r \in Handlers |-> <<>>]
    /\ responses = [r \in Handlers |-> <<>>]
    /\ trace = [r \in Handlers |-> <<>>]
    /\ polls = [r \in Handlers |-> 0]
    /\ served = 0
    /\ chat \in {ChatMounted(type) : type \in Endpoints}
    /\ input = InputMounted

\* The sends of one ChatInterface, one at a time, and the instance that
\* serves them.
NextChat == ChatSend \/ HandlerChat(1) \/ ChatSettle \/ ChatReload

SpecChat == InitChat /\ [][NextChat]_vars

\* ------------------------------------------------------------- ChatInput
\* the characters String.prototype.trim strips
Whitespace == {" ", "\n"}

\* the texts typed into the field
Texts ==
    {<<>>, <<" ">>, <<"a">>, <<" ", "\n">>, <<" ", "a">>, <<"a", " ">>,
     <<" ", "a", "\n">>, <<"a", " ", "b">>, <<"\n", "a", " ", "b", " ">>}

RECURSIVE trimStart(_)
trimStart(text) ==
    IF text # <<>> /\ Head(text) \in Whitespace THEN trimStart(Tail(text))
    ELSE text

\* variant: the text is taken as it is typed
trimNothing(text) == text

\* String.prototype.trim
trim(text) == Reverse(trimStart(Reverse(trimStart(text))))

\* onChangeText={setMessage}
ChangeText ==
    /\ \E text \in Texts : input' = [input EXCEPT !.message = text]
    /\ UNCHANGED <<env, chat, storeVars, remoteVars, pc, request, resolveVars,
                   runVars, assistantResponse, responses, trace, polls, served>>

\* the parent renders the input with another value of disabled
SetDisabled ==
    /\ input' = [input EXCEPT !.disabled = ~@]
    /\ UNCHANGED <<env, chat, storeVars, remoteVars, pc, request, resolveVars,
                   runVars, assistantResponse, responses, trace, polls, served>>

\* handleSend up to the await: nothing when the trimmed message is empty,
\* a send is in progress or the input is disabled; otherwise the field is
\* cleared, isSending set and onSend called with the trimmed message.
HandleSend ==
    /\ Len(input.calls) < MaxRequests
    /\ IF trim(input.message) = <<>> \/ input.isSending \/ input.disabled
         THEN input' = input
         ELSE input' = [input EXCEPT !.message = <<>>,
                                     !.isSending = TRUE,
                                     !.calls = Append(@, trim(input.message)),
                                     !.pending = @ + 1]
    /\ UNCHANGED <<env, chat, storeVars, remoteVars, pc, request, resolveVars,
                   runVars, assistantResponse, responses, trace, polls, served>>

\* onSend settles, resolved or rejected: the finally block runs.
OnSendSettles ==
    /\ input.pending > 0
    /\ \E outcome \in {"resolved", "rejected"} :
         input' = [input EXCEPT !.isSending = FALSE, !.pending = @ - 1]
    /\ UNCHANGED <<env, chat, storeVars, remoteVars, pc, request, resolveVars,
                   runVars, assistantResponse, responses, trace, polls, served>>

\* The events of a ChatInput whose onSend settles at some later time.
NextInput == ChangeText \/ SetDisabled \/ HandleSend \/ OnSendSettles

\* A ChatInput as it is mounted; the backend takes no step.
InitInput == Init /\ \A v \in DOMAIN env : env[v]

SpecInput == InitInput /\ [][NextInput]_vars

\* ------------------------------------------------------------ properties
Done(r) == pc[r] = "done"

\* the calls of request r with one of the given names, in call order
Calls(r, ops) == SelectSeq(trace[r], LAMBDA c : c.op \in ops)

\* the trace positions of the calls with the given name
Positions(r, op) == {i \in DOMAIN trace[r] : trace[r][i].op = op}

\* the response of a request that has been answered
Response(r) == responses[r][Len(responses[r])]

\* the request was answered with the chat response {response, conversationId,
\* threadId}, status 200
Succeeded(r) ==
    /\ Done(r) /\ responses[r] # <<>>
    /\ Response(r).status = 200 /\ Response(r).body = "chat"

\* the request was answered with the error envelope carrying this message
FailedWith(r, message) ==
    /\ Done(r) /\ Len(responses[r]) = 1
    /\ Response(r).status = 500 /\ Response(r).body = "error"
    /\ Response(r).error = message

\* the rows of table messages with the given id
Rows(id) == {i \in DOMAIN messages : messages[i].id = id}

InsertOps == {"insertUserMessage", "insertAssistantMessage"}

\* the message inserts of request r that the store accepted
Inserted(r) == SelectSeq(trace[r], LAMBDA c : c.op \in InsertOps /\ c.ok)

\* C1: a request answered with the success response inserted exactly two
\* message rows, both into the conversation it resolved and returns: first
\* the role "user" row holding the request's message, then the role
\* "assistant" row holding the returned response text.
C1_SuccessPersistsUserThenAssistant ==
    \A r \in Handlers :
        Succeeded(r) =>
            LET ins == Inserted(r) IN
            /\ Len(ins) = 2
            /\ ins[1].op = "insertUserMessage"
            /\ ins[2].op = "insertAssistantMessage"
            /\ \E i, j \in DOMAIN messages :
                 /\ i < j
                 /\ messages[i] = MessageRow(ins[1].row, Response(r).conversationId,
                                             "user", request[r].message)
                 /\ messages[j] = MessageRow(ins[2].row, Response(r).conversationId,
                                             "assistant", Response(r).response)
            /\ Response(r).conversationId = dbConversationId[r]

C1_Witness ==
    \E r \in Handlers :
        /\ Succeeded(r)
        /\ Len(Inserted(r)) = 2
        /\ request[r].endpoint = "excursion_creator"
        /\ Response(r).response = ReplyText(runId[r])

\* C2: whenever the append-message call is issued, the request has already
\* inserted its role "user" message and the store accepted it; a request whose
\* user-message insert failed issues no append.
C2_UserInsertBeforeAppend ==
    \A r \in Handlers :
        /\ \A i \in Positions(r, "appendMessage") :
             \E j \in Positions(r, "insertUserMessage") :
                 j < i /\ trace[r][j].ok
        /\ pc[r] = "appendMessage" =>
             \E j \in Positions(r, "insertUserMessage") : trace[r][j].ok
        /\ (\E j \in Positions(r, "insertUserMessage") : ~trace[r][j].ok) =>
             /\ Positions(r, "appendMessage") = {}
             /\ Done(r)

C2_Witness ==
    \E r \in Handlers :
        /\ Positions(r, "appendMessage") # {}
        /\ \E j \in Positions(r, "insertUserMessage") : trace[r][j].ok

\* C3: when the append-message call fails, the request ends with the error
\* response, its role "user" message is in the store, it inserts no role
\* "assistant" message, and it creates and polls no run.
C3_AppendFailureKeepsUserMessage ==
    \A r \in Handlers :
        (\E i \in Positions(r, "appendMessage") : ~trace[r][i].ok) =>
            /\ FailedWith(r, "Failed to add message to thread")
            /\ \E c \in {trace[r][j] : j \in Positions(r, "insertUserMessage")} :
                 /\ c.ok
                 /\ \E i \in Rows(c.row) :
                      messages[i] = MessageRow(c.row, dbConversationId[r], "user",
                                               request[r].message)
            /\ Positions(r, "insertAssistantMessage") = {}
            /\ Positions(r, "createRun") = {}
            /\ Positions(r, "listMessages") = {}
            /\ polls[r] = 0
            /\ runId[r] = 0
            /\ trace[r][Len(trace[r])].op = "appendMessage"

C3_Witness ==
    \E r \in Handlers :
        /\ \E i \in Positions(r, "appendMessage") : ~trace[r][i].ok
        /\ Done(r)
        /\ messages # <<>>

\* C4: when a status poll returns "failed", "cancelled" or "expired", the
\* request is over: it issues no further poll, it fails with the error that
\* carries that status (not the timeout error, also on poll 30), and it
\* neither lists the thread nor inserts an assistant message.
C4_TerminalFailureStopsPolling ==
    \A r \in Handlers :
        (attempts[r] >= 1 /\ runStatus[r] \in FailedStatuses) =>
            /\ FailedWith(r, "Assistant run " \o runStatus[r])
            /\ Response(r).error # "Assistant run timed out"
            /\ polls[r] = attempts[r]
            /\ Positions(r, "listMessages") = {}
            /\ Positions(r, "insertAssistantMessage") = {}

C4_Witness ==
    \E r \in Handlers :
        /\ polls[r] = 30
        /\ runStatus[r] = "expired"
        /\ FailedWith(r, "Assistant run expired")

\* C5: a request whose run never shows a terminal status polls exactly 30
\* times and then fails with "Assistant run timed out"; no request polls more
\* than 30 times, and none is left in the loop after 30 polls.
C5_TimeoutAfterThirtyPolls ==
    \A r \in Handlers :
        /\ polls[r] <= 30 /\ attempts[r] <= polls[r]
        /\ pc[r] = "pollRun" => polls[r] < 30
        /\ (Done(r) /\ runId[r] # 0 /\ runStatus[r] \in NonTerminalStatuses
              /\ polls[r] = attempts[r]) =>
             /\ polls[r] = 30
             /\ FailedWith(r, "Assistant run timed out")
        /\ (Done(r) /\ responses[r] # <<>>
              /\ Response(r).error = "Assistant run timed out") =>
             /\ polls[r] = 30
             /\ runStatus[r] \notin {"completed"} \cup FailedStatuses

C5_Witness ==
    \E r \in Handlers :
        /\ FailedWith(r, "Assistant run timed out")
        /\ polls[r] = 30
        /\ runStatus[r] = "requires_action"

\* the request is a chat request that passed the checks before resolution
Admitted(r) ==
    /\ pc[r] # "idle"
    /\ request[r].method = "POST"
    /\ validationError(request[r]) = <<>>

\* the remote calls that name a thread in their URL
ThreadOps == {"appendMessage", "createRun", "listMessages"}

\* C6: a request without conversationId makes at most one create-thread call
\* and one conversation insert; when both succeed, the one row inserted binds
\* the caller, the endpoint's assistant type and the new thread, and both
\* calls come before the message is appended to that thread.
C6_NewConversationBeforeAppend ==
    \A r \in Handlers :
        (Admitted(r) /\ request[r].conversationId = NoConversation) =>
            LET created == Calls(r, {"createThread"})
                inserted == Calls(r, {"insertConversation"})
            IN
            /\ Len(created) <= 1 /\ Len(inserted) <= 1
            /\ (inserted # <<>> /\ inserted[1].ok) =>
                 /\ Len(created) = 1 /\ created[1].ok
                 /\ [id |-> inserted[1].conv, user_id |-> request[r].credential,
                     assistant_type |-> request[r].endpoint,
                     thread_id |-> created[1].thread] \in conversations
                 /\ \A c \in conversations :
                      (c.id = inserted[1].conv \/ c.thread_id = created[1].thread)
                        => (c.id = inserted[1].conv /\ c.thread_id = created[1].thread)
            /\ \A i \in Positions(r, "appendMessage") :
                 /\ \E j, k \in 1..(i - 1) :
                      /\ j < k
                      /\ trace[r][j].op = "createThread" /\ trace[r][j].ok
                      /\ trace[r][k].op = "insertConversation" /\ trace[r][k].ok
                 /\ trace[r][i].thread = created[1].thread

C6_Witness ==
    \E r \in Handlers :
        /\ Admitted(r) /\ request[r].conversationId = NoConversation
        /\ request[r].endpoint = "excursion_creator"
        /\ \E i \in Positions(r, "appendMessage") : trace[r][i].ok
        /\ Cardinality(conversations) = 2

\* the conversation a request names, when it exists and is the caller's
Owned(r) ==
    {c \in conversations :
        /\ request[r].conversationId # NoConversation
        /\ c.id = request[r].conversationId
        /\ c.user_id = request[r].credential}

\* C7: a request that names an existing conversation of the caller makes no
\* create-thread call and inserts no conversation row; its append, its run and
\* its listing are on the thread_id stored in that conversation, its messages
\* go to that conversation, and its success response carries that conversation
\* id and thread id.
C7_OwnedConversationReusesThread ==
    \A r \in Handlers : \A c \in Owned(r) :
        Admitted(r) =>
            /\ Positions(r, "createThread") = {}
            /\ Positions(r, "insertConversation") = {}
            /\ \A i \in DOMAIN trace[r] :
                 /\ trace[r][i].op \in ThreadOps => trace[r][i].thread = c.thread_id
                 /\ trace[r][i].op \in InsertOps => trace[r][i].conv = c.id
            /\ runId[r] # 0 => runs[runId[r]].thread_id = c.thread_id
            /\ Succeeded(r) =>
                 /\ Response(r).conversationId = c.id
                 /\ Response(r).threadId = c.thread_id

C7_Witness ==
    \E r \in Handlers :
        /\ Admitted(r) /\ Owned(r) # {}
        /\ Succeeded(r)
        /\ Len(threads[Response(r).threadId]) >= 3

\* the request names a conversation that does not exist or is another user's
NotOwned(r) ==
    /\ Admitted(r)
    /\ request[r].conversationId # NoConversation
    /\ Owned(r) = {}

\* C8: a request that names a conversation that does not exist or belongs to
\* another user gets past thread resolution only with a thread and a
\* conversation it created itself, owned by the caller.  Every message row a
\* request inserts is in a conversation of its caller, and no thread named by
\* a request's calls or returned in its response is the thread of another
\* user's conversation.
C8_ForeignConversationFallsBackToNew ==
    \A r \in Handlers :
        /\ NotOwned(r) =>
             /\ \A i \in DOMAIN trace[r] :
                  trace[r][i].op \in InsertOps \cup ThreadOps =>
                    \E j, k \in 1..(i - 1) :
                        /\ j < k
                        /\ trace[r][j].op = "createThread" /\ trace[r][j].ok
                        /\ trace[r][k].op = "insertConversation" /\ trace[r][k].ok
                        /\ trace[r][k].conv = dbConversationId[r]
                        /\ trace[r][j].thread = threadId[r]
             /\ pc[r] \in {"insertUserMessage", "appendMessage", "createRun",
                           "pollRun", "listMessages", "insertAssistantMessage"} =>
                  /\ dbConversationId[r] # request[r].conversationId
                  /\ [id |-> dbConversationId[r], user_id |-> request[r].credential,
                      assistant_type |-> request[r].endpoint,
                      thread_id |-> threadId[r]] \in conversations
        /\ \A i \in DOMAIN trace[r] :
             /\ (trace[r][i].op \in InsertOps /\ trace[r][i].ok) =>
                  /\ \E c \in conversations :
                       c.id = trace[r][i].conv /\ c.user_id = request[r].credential
                  /\ \E m \in Rows(trace[r][i].row) :
                       messages[m].conversation_id = trace[r][i].conv
             /\ trace[r][i].op \in ThreadOps =>
                  \A c \in conversations :
                      c.thread_id = trace[r][i].thread => c.user_id = request[r].credential
        /\ Succeeded(r) =>
             \A c \in conversations :
                 (c.thread_id = Response(r).threadId \/ c.id = Response(r).conversationId)
                   => c.user_id = request[r].credential

C8_Witness ==
    \E r \in Handlers :
        /\ NotOwned(r)
        /\ \E c \in conversations :
             c.id = request[r].conversationId /\ c.user_id # request[r].credential
        /\ Succeeded(r)

\* the tokens only the user-context annotation is made of
AnnotationTokens ==
    {"\n\nUser Context:\n", "Health Goals: ", "Mobility Level: ",
     "Preferred Activities: ", "Location: "}

\* C9: the role "user" row a request inserts holds exactly the message of the
\* request body, whatever the userContext, and no stored message content
\* holds any part of the user-context annotation.
C9_StoredContentIsOriginalMessage ==
    /\ \A r \in Handlers : \A i \in Positions(r, "insertUserMessage") :
         trace[r][i].ok =>
           \E m \in Rows(trace[r][i].row) :
               /\ messages[m].role = "user"
               /\ messages[m].content = request[r].message
    /\ \A m \in DOMAIN messages : \A t \in DOMAIN messages[m].content :
         messages[m].content[t] \notin AnnotationTokens

C9_Witness ==
    \E r \in Handlers :
        /\ request[r].endpoint = "excursion_creator"
        /\ \E i \in Positions(r, "appendMessage") :
             /\ trace[r][i].ok
             /\ trace[r][i].text # request[r].message
             /\ Len(trace[r][i].text) > Len(request[r].message)
        /\ \E i \in Positions(r, "insertUserMessage") :
             \E m \in Rows(trace[r][i].row) :
                 messages[m].content = request[r].message

\* the request has hit a failure: a check before resolution, a store or remote
\* call that did not succeed, an unanswered poll, a run in a failed status, an
\* exhausted loop, an unset assistant id, or a listing without a text reply
Failure(r) ==
    /\ pc[r] # "idle"
    /\ request[r].method = "POST"
    /\ \/ validationError(request[r]) # <<>>
       \/ \E i \in DOMAIN trace[r] : ~trace[r][i].ok
       \/ polls[r] > attempts[r]
       \/ attempts[r] >= 1 /\ runStatus[r] \in FailedStatuses
       \/ polls[r] = 30 /\ runStatus[r] # "completed"
       \/ /\ \E i \in Positions(r, "appendMessage") : trace[r][i].ok
          /\ ~env[assistantIdVar(request[r].endpoint)]
       \/ /\ \E i \in Positions(r, "listMessages") : trace[r][i].ok
          /\ ~extractReply(listMessages(threadId[r])).ok

\* C10: every failure of a non-OPTIONS request ends it with exactly one
\* response, of status 500 with the body {error: message}; a POST request is
\* answered either so or with the success response after a run without any
\* failed call, never with both and never with another status.
C10_FailuresBecomeOneStatus500 ==
    \A r \in Handlers :
        /\ Len(responses[r]) <= 1
        /\ Done(r) <=> Len(responses[r]) = 1
        /\ Failure(r) =>
             /\ Done(r)
             /\ Response(r).status = 500
             /\ Response(r).body = "error"
             /\ Response(r).error # ""
        /\ (Done(r) /\ request[r].method = "POST") =>
             \/ /\ Response(r).status = 500 /\ Response(r).body = "error"
                /\ Response(r).error # ""
             \/ /\ Response(r).status = 200 /\ Response(r).body = "chat"
                /\ ~Failure(r)
                /\ Len(Inserted(r)) = 2

C10_Witness ==
    \E r \in Handlers :
        /\ Failure(r)
        /\ \E i \in Positions(r, "insertAssistantMessage") : ~trace[r][i].ok
        /\ FailedWith(r, "An unknown error occurred")

\* the request fails one of the checks made before thread resolution
Rejected(r) ==
    /\ pc[r] # "idle"
    /\ request[r].method = "POST"
    /\ \/ request[r].credential \notin Users
       \/ request[r].message = <<>>
       \/ ~env["OPENAI_API_KEY"]

\* C11: a request without an Authorization header, with a credential that
\* resolves to no user, with an empty message, or received while the API key
\* is unset, is answered at once with the error response and has made no store
\* call and no remote call: no thread, no run, no poll, no row.  The error names
\* the credential when both the credential and the message are wanting.
C11_RejectedWithoutSideEffect ==
    \A r \in Handlers :
        Rejected(r) =>
            /\ Done(r) /\ Len(responses[r]) = 1
            /\ Response(r).status = 500 /\ Response(r).body = "error"
            /\ trace[r] = <<>> /\ polls[r] = 0
            /\ threadId[r] = 0 /\ dbConversationId[r] = 0 /\ runId[r] = 0
            /\ request[r].credential = "absent"
                 => Response(r).error = "No authorization header"
            /\ request[r].credential = "invalid"
                 => Response(r).error = "Unauthorized"
            /\ (request[r].credential \in Users /\ request[r].message = <<>>)
                 => Response(r).error = "Message is required"
            /\ (request[r].credential \in Users /\ request[r].message # <<>>)
                 => Response(r).error = "OpenAI API key not configured"

C11_Witness ==
    \E r \in Handlers :
        /\ Rejected(r)
        /\ request[r].credential = "invalid" /\ request[r].message = <<>>
        /\ FailedWith(r, "Unauthorized")
        /\ conversations # {} /\ messages # <<>>

\* C12: the conversationId of a success response is the id of a conversation
\* row of the caller whose thread_id is the threadId of the response, and the
\* two message rows the request inserted are rows of that conversation.
C12_ResponseIdsMatchStore ==
    \A r \in Handlers :
        Succeeded(r) =>
            \E c \in conversations :
                /\ c.id = Response(r).conversationId
                /\ c.thread_id = Response(r).threadId
                /\ c.user_id = request[r].credential
                /\ \A d \in conversations : d.id = c.id => d = c
                /\ Len(Inserted(r)) = 2
                /\ \A i \in DOMAIN Inserted(r) :
                     /\ Rows(Inserted(r)[i].row) # {}
                     /\ \A m \in Rows(Inserted(r)[i].row) :
                          messages[m].conversation_id = c.id

C12_Witness ==
    \E r \in Handlers :
        /\ Succeeded(r)
        /\ request[r].conversationId = UnknownConversation
        /\ Response(r).conversationId = 2
        /\ Response(r).threadId = 2

\* C13: whatever sends ran, one after the other or overlapping, no two
\* conversation rows have the same thread_id, no two have the same id, and no
\* step changes the thread_id of a row that exists.
C13_ThreadIdUniqueAndImmutable ==
    [][ /\ \A c, d \in conversations' :
             (c.thread_id = d.thread_id \/ c.id = d.id) => c = d
        /\ \A c \in conversations : \A d \in conversations' :
             d.id = c.id => d.thread_id = c.thread_id ]_vars

C13_Witness ==
    /\ Cardinality(conversations) = 3
    /\ \E c, d \in conversations :
         /\ c.id < d.id /\ c.thread_id > d.thread_id
         /\ c.user_id = "u1" /\ d.user_id = "u2"
    /\ \A r \in Handlers : pc[r] = "appendMessage"

\* the rows of a conversation, oldest first
MessagesOf(conv) == SelectSeq(messages, LAMBDA m : m.conversation_id = conv)

\* the request names a conversation of its caller and its user message was
\* accepted: the row is in that conversation
RetryAppends ==
    \A r \in Handlers : \A i \in Positions(r, "insertUserMessage") :
        (Admitted(r) /\ Owned(r) # {} /\ trace[r][i].ok) =>
            \E k \in DOMAIN MessagesOf(request[r].conversationId) :
                MessagesOf(request[r].conversationId)[k] =
                    MessageRow(trace[r][i].row, request[r].conversationId, "user",
                               request[r].message)

\* C14: no step of a request, failing or not, removes a conversation row or
\* a message row or changes its id, owner, type, thread, role or content: the
\* tables only grow, by rows added at the end.  A later send that names the conversation adds its user message to
\* that conversation, after the rows an earlier failed send left there.
C14_FailureKeepsRowsRetryAppends ==
    [][ /\ conversations \subseteq conversations'
        /\ Len(messages') >= Len(messages)
        /\ SubSeq(messages', 1, Len(messages)) = messages
        /\ RetryAppends' ]_vars

C14_Witness ==
    \E r \in Handlers :
        /\ Admitted(r) /\ Owned(r) # {} /\ Succeeded(r)
        /\ LET rows == MessagesOf(request[r].conversationId) IN
             /\ Len(rows) = 3
             /\ rows[1].role = "user" /\ rows[2].role = "user"
             /\ rows[3].role = "assistant"
             /\ rows[2].id = Inserted(r)[1].row

\* C15: a deleteConversation call by the owner of the conversation leaves no
\* row with that id and no message row of that conversation, and leaves every
\* other row as it was; a call by another user, or for an id of no row, leaves
\* both tables as they were.
C15_DeleteOnlyByOwnerCascades ==
    [][ \A uid \in Users : \A id \in ConversationIds :
          deleteConversation(uid, id) =>
            IF \E c \in conversations : c.id = id /\ c.user_id = uid
              THEN /\ \A c \in conversations' : c.id # id
                   /\ \A m \in DOMAIN messages' : messages'[m].conversation_id # id
                   /\ \A c \in conversations : c.id # id => c \in conversations'
                   /\ messages' = SelectSeq(messages,
                                            LAMBDA m : m.conversation_id # id)
              ELSE /\ conversations' = conversations
                   /\ messages' = messages ]_vars

C15_Witness ==
    /\ \A c \in conversations : c.id # 1
    /\ \A m \in DOMAIN messages : messages[m].conversation_id # 1
    /\ \E c \in conversations : c.user_id = "u2"
    /\ Len(messages) = 2
    /\ nextMsgId = 5

\* C16: a request polls its run at most 30 times.  Once it has seen the status
\* "completed" it is out of the loop for good: it polls no more (not at all
\* when the create-run response carried "completed") and its next call lists
\* the messages of the thread; it lists them in no other case.
C16_PollingStopsAtCompleted ==
    \A r \in Handlers :
        /\ polls[r] <= 30
        /\ (runId[r] # 0 /\ runStatus[r] = "completed") =>
             /\ pc[r] \in {"listMessages", "insertAssistantMessage", "done"}
             /\ polls[r] = attempts[r]
             /\ pc[r] = "listMessages" <=> Positions(r, "listMessages") = {}
        /\ Positions(r, "listMessages") # {} =>
             /\ runStatus[r] = "completed"
             /\ Cardinality(Positions(r, "listMessages")) = 1
             /\ \A i \in Positions(r, "listMessages") :
                  /\ i > 1
                  /\ trace[r][i - 1].op = "createRun" /\ trace[r][i - 1].ok
        /\ pc[r] = "pollRun" =>
             /\ runStatus[r] # "completed"
             /\ attempts[r] < 30

C16_Witness ==
    \E r \in Handlers :
        /\ runStatus[r] = "completed"
        /\ polls[r] = 30
        /\ Succeeded(r)

\* the error messages of the paths that end between the creation of the run
\* and the reading of the reply
RunPhaseErrors ==
    {"Assistant run failed", "Assistant run cancelled", "Assistant run expired",
     "Assistant run timed out", "Failed to check run status",
     "Failed to retrieve messages", "No assistant response found",
     "No text content in assistant response"}

\* C17: a request issues the insert of a role "assistant" message only after
\* it has seen the status "completed" for the run it created on its thread and
\* after its list-messages call succeeded.  A request that ends with a failed,
\* cancelled or expired run, a timeout, a failed poll, a failed listing, or a
\* listing without assistant message or text content has issued no such
\* insert, and every role "assistant" row in the store is older than its user
\* message.
C17_AssistantInsertOnlyAfterCompletedRun ==
    \A r \in Handlers :
        /\ (pc[r] = "insertAssistantMessage"
              \/ Positions(r, "insertAssistantMessage") # {}) =>
             /\ runId[r] # 0
             /\ runs[runId[r]].thread_id = threadId[r]
             /\ runStatus[r] = "completed"
             /\ \E j \in Positions(r, "listMessages") :
                  /\ trace[r][j].ok
                  /\ \A i \in Positions(r, "insertAssistantMessage") : j < i
        /\ (Done(r) /\ Len(responses[r]) = 1
              /\ Response(r).error \in RunPhaseErrors) =>
             /\ Positions(r, "insertAssistantMessage") = {}
             /\ Len(Inserted(r)) = 1
             /\ \A m \in DOMAIN messages :
                  messages[m].role = "assistant"
                    => messages[m].id < Inserted(r)[1].row

C17_Witness ==
    \E r \in Handlers :
        /\ \E i \in Positions(r, "insertAssistantMessage") : trace[r][i].ok
        /\ attempts[r] = 2
        /\ Len(threads[threadId[r]]) = 4
        /\ Len(messages) = 4

\* the listing a request reads: the messages of its thread, newest first
Listing(r) == IF threadId[r] = 0 THEN <<>> ELSE listMessages(threadId[r])

\* the positions of the first role "assistant" message of a listing
FirstAssistant(data) ==
    {i \in DOMAIN data :
        /\ data[i].role = "assistant"
        /\ \A j \in 1..(i - 1) : data[j].role # "assistant"}

\* the message has a part of type "text"
HasText(m) == \E p \in DOMAIN m.content : m.content[p].type = "text"

\* the request's list-messages call answered ok
Listed(r) == \E j \in Positions(r, "listMessages") : trace[r][j].ok

\* C18: the reply a request persists and returns is the value of the first
\* text part of the first role "assistant" message of the listing of its
\* thread.  When the listing holds no role "assistant" message the request
\* fails with "No assistant response found"; when its first role "assistant"
\* message has no text part the request fails with "No text content in
\* assistant response", whatever the later messages hold.  In both cases no
\* role "assistant" row is inserted.
C18_ReplyIsFirstAssistantText ==
    \A r \in Handlers :
        Listed(r) =>
            LET data == Listing(r) IN
            /\ FirstAssistant(data) = {} =>
                 /\ FailedWith(r, "No assistant response found")
                 /\ Positions(r, "insertAssistantMessage") = {}
            /\ \A i \in FirstAssistant(data) :
                 IF HasText(data[i])
                   THEN /\ pc[r] = "insertAssistantMessage" \/ Done(r)
                        /\ \E p \in DOMAIN data[i].content :
                             /\ data[i].content[p].type = "text"
                             /\ \A q \in 1..(p - 1) : data[i].content[q].type # "text"
                             /\ assistantResponse[r] = data[i].content[p].value
                        /\ Succeeded(r) =>
                             /\ Response(r).response = assistantResponse[r]
                             /\ \E m \in Rows(Inserted(r)[2].row) :
                                  /\ messages[m].role = "assistant"
                                  /\ messages[m].content = assistantResponse[r]
                        /\ Done(r) =>
                             \/ Succeeded(r)
                             \/ \E j \in Positions(r, "insertAssistantMessage") :
                                  ~trace[r][j].ok
                   ELSE /\ FailedWith(r, "No text content in assistant response")
                        /\ Positions(r, "insertAssistantMessage") = {}

C18_Witness ==
    \E r \in Handlers :
        /\ Listed(r)
        /\ FailedWith(r, "No text content in assistant response")
        /\ \E i, k \in DOMAIN Listing(r) :
             /\ i \in FirstAssistant(Listing(r)) /\ i < k
             /\ Listing(r)[k].role = "assistant" /\ HasText(Listing(r)[k])

\* the calls to the remote service, other than the status poll
RemoteOps == {"createThread", "appendMessage", "createRun", "listMessages"}

\* C19: a request calls create-thread, append-message, create-run and
\* list-messages at most once each.  A remote call that does not succeed is the
\* last call of the request, which ends with the error response; a poll that
\* does not succeed is the last poll and no listing follows it.  A further poll
\* is made only after a poll that succeeded with a status that is neither
\* "completed" nor a failure.
C19_NoRetryButThePoll ==
    \A r \in Handlers :
        /\ \A op \in RemoteOps : Cardinality(Positions(r, op)) <= 1
        /\ \A i \in DOMAIN trace[r] :
             (trace[r][i].op \in RemoteOps /\ ~trace[r][i].ok) =>
                 /\ i = Len(trace[r])
                 /\ Done(r) /\ Len(responses[r]) = 1
                 /\ Response(r).status = 500
                 /\ polls[r] = attempts[r]
                 /\ trace[r][i].op # "listMessages" => polls[r] = 0
        /\ polls[r] # attempts[r] =>
             /\ polls[r] = attempts[r] + 1
             /\ FailedWith(r, "Failed to check run status")
             /\ Positions(r, "listMessages") = {}
             /\ trace[r][Len(trace[r])].op = "createRun"
        /\ (pc[r] = "pollRun" /\ polls[r] >= 1) =>
             /\ polls[r] = attempts[r]
             /\ runStatus[r] \notin {"completed"} \cup FailedStatuses

C19_Witness ==
    \E r \in Handlers :
        /\ FailedWith(r, "Failed to check run status")
        /\ attempts[r] = 3 /\ polls[r] = 4
        /\ Cardinality(Positions(r, "createThread")) = 1
        /\ Cardinality(Positions(r, "createRun")) = 1

\* two requests in flight that resolved to the same conversation and thread
SameConversation(r, s) ==
    /\ r # s
    /\ pc[r] \notin {"idle", "done"} /\ pc[s] \notin {"idle", "done"}
    /\ dbConversationId[r] # 0
    /\ dbConversationId[r] = dbConversationId[s]
    /\ threadId[r] = threadId[s]

\* C20: nothing keeps two sends against one conversation apart.  While one
\* request stands between the insert of its user message and its append to
\* the thread, the other request can insert its own user message, and can
\* append to the thread ahead of it.
C20_SendsNotMutuallyExcluded ==
    \A r, s \in Handlers :
        (SameConversation(r, s) /\ pc[r] = "appendMessage") =>
            /\ pc[s] = "insertUserMessage" =>
                 ENABLED (InsertUserMessage(s) /\ Len(messages') = Len(messages) + 1)
            /\ pc[s] = "appendMessage" =>
                 ENABLED (AppendMessage(s)
                          /\ Len(threads'[threadId[s]]) = Len(threads[threadId[s]]) + 1)

\* The first request inserted its user message before the second, and the
\* second appended before the first: the second's message is the only one
\* ahead of the reply of its run, the first's comes after that reply.
C20_Witness ==
    \E r, s \in Handlers :
        /\ r # s
        /\ request[r].conversationId = 1 /\ request[s].conversationId = 1
        /\ threadId[r] = 1 /\ threadId[s] = 1
        /\ Len(Inserted(r)) >= 1 /\ Len(Inserted(s)) >= 1
        /\ Inserted(r)[1].row < Inserted(s)[1].row
        /\ \E i \in Positions(r, "appendMessage") : trace[r][i].ok
        /\ \E i \in Positions(s, "appendMessage") : trace[s][i].ok
        /\ runId[s] = 2 /\ runId[r] = 0
        /\ Len(threads[1]) = 5
        /\ threads[1][3].role = "user"
        /\ threads[1][4].role = "assistant" /\ threads[1][4].run_id = 2
        /\ threads[1][5].role = "user"

\* the calls a handler makes
HandlerOps ==
    {"selectConversation", "createThread", "insertConversation",
     "insertUserMessage", "appendMessage", "createRun", "listMessages",
     "insertAssistantMessage"}

\* what a request that timed out has done: 30 polls after its create-run
\* call, which is its last call, and one message insert, of its user message
GaveUp(r) ==
    /\ polls[r] = 30 /\ attempts[r] = 30
    /\ runStatus[r] \notin {"completed"} \cup FailedStatuses
    /\ trace[r] # <<>>
    /\ trace[r][Len(trace[r])].op = "createRun"
    /\ \A i \in DOMAIN trace[r] : trace[r][i].op \in HandlerOps /\ trace[r][i].ok
    /\ Len(Inserted(r)) = 1 /\ Inserted(r)[1].op = "insertUserMessage"
    /\ \A m \in DOMAIN messages :
         messages[m].id > Inserted(r)[1].row => messages[m].role # "assistant"
    /\ \A m \in DOMAIN messages : messages[m].content # ReplyText(runId[r])

\* C21: a request that failed with the timeout error made its 30 polls and
\* nothing after them.  From then on, until the instance takes its next
\* request, no step changes the store, the runs, or the calls and polls of
\* the request, also when its run completes at the remote service and leaves
\* a reply on the thread: that reply is in no message row, and the run is
\* never cancelled.  A loop that ran out without a terminal status ends in
\* the timeout error.
C21_NothingAfterTimeout ==
    [][ \A r \in Handlers :
          /\ TimedOut(r)' => GaveUp(r)'
          /\ (polls[r] = 30 /\ attempts[r] = 30 /\ pc[r] # "pollRun"
                /\ runStatus[r] \notin {"completed"} \cup FailedStatuses)'
               => TimedOut(r)'
          /\ (TimedOut(r) /\ served' = served) =>
               /\ TimedOut(r)'
               /\ UNCHANGED <<storeVars, runs, trace, polls, runVars>> ]_vars

C21_Witness ==
    \E r \in Handlers :
        /\ TimedOut(r)
        /\ RunReplied(runId[r])
        /\ \E i \in DOMAIN threads[threadId[r]] :
             /\ threads[threadId[r]][i].run_id = runId[r]
             /\ threads[threadId[r]][i].content = <<TextPart(ReplyText(runId[r]))>>
        /\ Len(messages) = 1

\* the assistant identifier of the request's endpoint is not set
AssistantUnset(r) ==
    \/ request[r].endpoint = "health_coach" /\ ~env["HEALTH_COACH_ASSISTANT_ID"]
    \/ request[r].endpoint = "excursion_creator"
          /\ ~env["EXCURSION_CREATOR_ASSISTANT_ID"]

\* the configuration error of the request's endpoint
ConfigurationError(r) ==
    IF request[r].endpoint = "health_coach"
      THEN "Health Coach Assistant ID not configured"
      ELSE "Excursion Creator Assistant ID not configured"

\* C22: a request whose endpoint has no assistant identifier set, and whose
\* message was appended to the thread, fails with that endpoint's
\* configuration error and creates and polls no run.  The error comes only
\* after the append: the conversation row, the stored user message and the
\* message on the thread are in place when the request has ended.
C22_UnsetAssistantFailsAfterAppend ==
    \A r \in Handlers :
        /\ (Admitted(r) /\ AssistantUnset(r)
              /\ \E i \in Positions(r, "appendMessage") : trace[r][i].ok) =>
             /\ FailedWith(r, ConfigurationError(r))
             /\ Positions(r, "createRun") = {} /\ runId[r] = 0 /\ polls[r] = 0
             /\ trace[r][Len(trace[r])].op = "appendMessage"
             /\ \E c \in conversations :
                  /\ c.id = dbConversationId[r] /\ c.thread_id = threadId[r]
                  /\ c.user_id = request[r].credential
             /\ Len(Inserted(r)) = 1
             /\ \E m \in Rows(Inserted(r)[1].row) :
                  messages[m] = MessageRow(Inserted(r)[1].row, dbConversationId[r],
                                           "user", request[r].message)
             /\ threads[threadId[r]] # <<>>
             /\ LET last == threads[threadId[r]][Len(threads[threadId[r]])] IN
                  /\ last.role = "user"
                  /\ last.content[1].value = trace[r][Len(trace[r])].text
        /\ (Done(r) /\ Len(responses[r]) = 1
              /\ Response(r).error \in {"Health Coach Assistant ID not configured",
                                         "Excursion Creator Assistant ID not configured"}) =>
             /\ AssistantUnset(r)
             /\ Response(r).error = ConfigurationError(r)
             /\ \E i \in Positions(r, "appendMessage") : trace[r][i].ok

C22_Witness ==
    \E r \in Handlers :
        /\ request[r].endpoint = "excursion_creator"
        /\ env["HEALTH_COACH_ASSISTANT_ID"]
        /\ FailedWith(r, "Excursion Creator Assistant ID not configured")
        /\ Len(threads[threadId[r]]) = 1
        /\ Len(messages) = 1

\* a list of one or two items, with ", " between them
Listed2(items) ==
    IF Len(items) = 1 THEN items[1] ELSE items[1] \o <<", ">> \o items[2]

\* the annotation of a request: each line headed by a line break, in the
\* order goals, mobility, activities, location
AnnotationLines(u) ==
    (IF u.healthGoals # <<>>
       THEN <<"\n", "Health Goals: ">> \o Listed2(u.healthGoals) ELSE <<>>)
    \o (IF u.mobilityLevel # <<>>
          THEN <<"\n", "Mobility Level: ">> \o u.mobilityLevel ELSE <<>>)
    \o (IF u.preferredActivities # <<>>
          THEN <<"\n", "Preferred Activities: ">> \o Listed2(u.preferredActivities)
          ELSE <<>>)
    \o (IF u.hasLocation /\ u.address # <<>>
          THEN <<"\n", "Location: ">> \o u.address ELSE <<>>)

\* the request adds nothing to the message
Plain(req) ==
    \/ req.endpoint = "health_coach"
    \/ ~req.userContext.present
    \/ /\ req.userContext.healthGoals = <<>>
       /\ req.userContext.mobilityLevel = <<>>
       /\ req.userContext.preferredActivities = <<>>
       /\ ~req.userContext.hasLocation \/ req.userContext.address = <<>>

\* C23: the text of every append call starts with the message of the request.
\* It is the message itself exactly when the endpoint is the health coach, or
\* the userContext is absent or has no goals, no mobility level, no activities
\* and no location address; otherwise it is the message, the heading
\* "User Context:" after two line breaks, and one line for each field that is
\* not empty, in the order goals, mobility, activities, location.
C23_AppendedTextIsMessagePlusAnnotation ==
    \A r \in Handlers : \A i \in Positions(r, "appendMessage") :
        LET text == trace[r][i].text
            req == request[r]
        IN
        /\ Len(text) >= Len(req.message)
        /\ SubSeq(text, 1, Len(req.message)) = req.message
        /\ text = req.message <=> Plain(req)
        /\ ~Plain(req) =>
             text = req.message \o <<"\n\nUser Context:\n">>
                      \o Tail(AnnotationLines(req.userContext))

C23_Witness ==
    \E r \in Handlers : \E i \in Positions(r, "appendMessage") :
        /\ trace[r][i].ok
        /\ request[r].userContext.hasLocation
        /\ request[r].userContext.address = <<>>
        /\ trace[r][i].text =
             request[r].message \o <<"\n\nUser Context:\n", "Health Goals: ",
                                      "sleep", ", ", "fitness", "\n",
                                      "Preferred Activities: ", "hiking">>

\* C24: the assistant message a request persists is the reply its own run
\* generated, never the reply of an earlier turn or of another request's run
\* on the same thread.  The handler takes the newest assistant message of the
\* listing whatever run wrote it, so this is violated: a second turn whose run
\* completes without a message persists the reply of the first turn again.
C24_PersistedReplyIsOwnRun ==
    \A r \in Handlers : \A i \in Positions(r, "insertAssistantMessage") :
        trace[r][i].ok =>
          /\ trace[r][i].text = ReplyText(runId[r])
          /\ \E k \in DOMAIN threads[threadId[r]] :
               /\ threads[threadId[r]][k].run_id = runId[r]
               /\ threads[threadId[r]][k].role = "assistant"

\* the number of rows of a conversation with the given role
Count(conv, role) ==
    Len(SelectSeq(messages, LAMBDA m : m.conversation_id = conv /\ m.role = role))

\* C25: in every state, under any interleaving of two requests, each
\* conversation has at most as many assistant messages as user messages, and
\* a conversation row a request created has at least one user message once
\* that request's user-message insert succeeded.
C25_AssistantRowsNeverOutnumberUserRows ==
    /\ \A c \in conversations : Count(c.id, "assistant") <= Count(c.id, "user")
    /\ \A r \in Handlers : \A i \in Positions(r, "insertConversation") :
         (trace[r][i].ok
            /\ \E j \in Positions(r, "insertUserMessage") : trace[r][j].ok)
         => /\ \E c \in conversations : c.id = trace[r][i].conv
            /\ Count(trace[r][i].conv, "user") >= 1

C25_Witness ==
    \E r, s \in Handlers :
        /\ r # s
        /\ Succeeded(r)
        /\ \E i \in Positions(r, "insertConversation") :
             /\ trace[r][i].ok
             /\ Count(trace[r][i].conv, "user") = 1
             /\ Count(trace[r][i].conv, "assistant") = 1
        /\ pc[s] = "listMessages"
        /\ dbConversationId[s] = 1
        /\ Count(1, "user") = 2
        /\ Count(1, "assistant") = 1

\* C26: every run created on the thread of a conversation uses the assistant
\* configured for the assistant_type stored in that conversation.  The lookup
\* matches id and user_id only, so this is violated: a request to one endpoint
\* naming the caller's conversation of the other type runs that endpoint's
\* assistant on the other type's thread.
C26_RunUsesConversationAssistant ==
    \A k \in DOMAIN runs : \A c \in conversations :
        c.thread_id = runs[k].thread_id =>
          runs[k].assistant_id = assistantIdVar(c.assistant_type)

\* the conversation request r resolved has no row any more
ConversationGone(r) ==
    /\ dbConversationId[r] # 0
    /\ \A c \in conversations : c.id # dbConversationId[r]

\* C27: in every state every message row references an existing conversation
\* row, also when the owner deletes the conversation while a send to it is in
\* flight: a message insert the send makes after the delete adds no row, and
\* the request ends with the status-500 error response.
C27_NoMessageWithoutConversation ==
    [][ /\ \A m \in DOMAIN messages' :
             \E c \in conversations' : c.id = messages'[m].conversation_id
        /\ \A r \in Handlers :
             (/\ pc[r] \in {"insertUserMessage", "insertAssistantMessage"}
              /\ ConversationGone(r)
              /\ pc'[r] # pc[r])
             => /\ messages' = messages
                /\ Done(r)'
                /\ Len(responses'[r]) = 1
                /\ Response(r)'.status = 500
                /\ Response(r)'.body = "error"
                /\ ~trace'[r][Len(trace'[r])].ok
                /\ trace'[r][Len(trace'[r])].op \in InsertOps ]_vars

C27_Witness ==
    \E r \in Handlers :
        /\ ConversationGone(r)
        /\ Done(r) /\ Response(r).status = 500
        /\ \E j \in Positions(r, "insertUserMessage") : trace[r][j].ok
        /\ trace[r][Len(trace[r])].op = "insertAssistantMessage"
        /\ ~trace[r][Len(trace[r])].ok
        /\ \A m \in DOMAIN messages : messages[m].conversation_id # dbConversationId[r]

\* the sends that succeeded before send number i
SucceededBefore(i) == {j \in 1..(i - 1) : chat.results[j].ok}

\* the first of them
FirstSuccess(i) == CHOOSE j \in SucceededBefore(i) : \A k \in SucceededBefore(i) : j <= k

\* C28: for a ChatInterface mounted without a conversation id, every send
\* made after a send succeeded carries the conversation id the first success
\* returned, and the request then creates no thread and no conversation;
\* every send made before any success carries no conversation id, and the
\* request then looks no conversation up: what it creates is a new thread and
\* a new conversation row, also when an earlier failed send created one.
C28_SendsCarryFirstReturnedId ==
    /\ \A i \in DOMAIN chat.sends :
         IF SucceededBefore(i) = {}
           THEN chat.sends[i].conversationId = NoConversation
           ELSE /\ chat.sends[i].conversationId =
                     chat.results[FirstSuccess(i)].conversationId
                /\ chat.sends[i].conversationId # NoConversation
    /\ (served >= 1 /\ served = chat.fetches) =>
         /\ request[1].conversationId = chat.sends[Len(chat.sends)].conversationId
               \/ ~chat.session
         /\ IF request[1].conversationId # NoConversation
              THEN /\ Positions(1, "createThread") = {}
                   /\ Positions(1, "insertConversation") = {}
                   /\ dbConversationId[1] \in {0, request[1].conversationId}
                   /\ \A c \in conversations : c.id <= request[1].conversationId
              ELSE /\ Positions(1, "selectConversation") = {}
                   /\ \A i \in Positions(1, "insertConversation") :
                        trace[1][i].ok =>
                          /\ trace[1][i].conv = nextConvId - 1
                          /\ trace[1][i].thread = Len(threads)
                          /\ \A c \in conversations :
                               c.thread_id = Len(threads) => c.id = nextConvId - 1

C28_Witness ==
    /\ Len(chat.sends) = 2
    /\ ~chat.results[1].ok
    /\ chat.sends[2].conversationId = NoConversation
    /\ Cardinality(conversations) = 2
    /\ \A c, d \in conversations : c.thread_id = d.thread_id => c = d
    /\ Succeeded(1)
    /\ Len(chat.results) = 2 /\ chat.results[2].ok
    /\ chat.conversationId = 2

\* the list without its last message
Front(list) == SubSeq(list, 1, Len(list) - 1)

\* C29: handleSendMessage adds exactly one optimistic user message to the end
\* of the list before the backend is called, and the list stays so while the
\* send is in progress.  When the send or the reload fails the list is the
\* list before the send and the error text is set; when both succeed the list
\* is the store's messages of the returned conversation, with no temp-
\* message, and no error is set.
C29_OptimisticMessageRolledBackOrReplaced ==
    [][ /\ (chat.pc = "idle" /\ chat'.pc # "idle") =>
             /\ chat'.messages =
                  Append(chat.messages,
                         [id |-> chat'.optimistic[1],
                          conversation_id |->
                              IF chat.conversationId = NoConversation
                                THEN Pending ELSE chat.conversationId,
                          role |-> "user", content |-> chat'.message])
             /\ chat'.optimistic[1].temp
             /\ \A i \in DOMAIN chat.messages : ~chat.messages[i].id.temp
             /\ chat'.error = ""
             /\ served' = served /\ served = chat.fetches
        /\ (chat.pc # "idle" /\ chat'.pc # "idle") => chat'.messages = chat.messages
        /\ (chat.pc = "sendMessage" /\ chat' # chat) =>
             IF chat.session /\ Response(1).status = 200 /\ chat'.error = ""
               THEN chat'.pc = "getMessages"
               ELSE chat'.pc = "idle" /\ chat'.error # ""
        /\ (chat.pc # "idle" /\ chat'.pc = "idle" /\ chat'.error # "") =>
             chat'.messages = Front(chat.messages)
        /\ (chat.pc # "idle" /\ chat'.pc = "idle" /\ chat'.error = "") =>
             /\ chat.pc = "getMessages"
             /\ Len(chat'.messages) = Len(MessagesOf(chat.returned))
             /\ \A i \in DOMAIN chat'.messages :
                  /\ ~chat'.messages[i].id.temp
                  /\ chat'.messages[i].id.n = MessagesOf(chat.returned)[i].id
                  /\ chat'.messages[i].role = MessagesOf(chat.returned)[i].role
                  /\ chat'.messages[i].content = MessagesOf(chat.returned)[i].content
                  /\ chat'.messages[i].conversation_id = chat.returned ]_vars

C29_Witness ==
    /\ chat.pc = "idle"
    /\ chat.error = "Failed to fetch messages: store error"
    /\ Len(chat.results) = 2 /\ chat.results[1].ok /\ chat.results[2].ok
    /\ Len(chat.messages) = 2
    /\ chat.messages[1].id = StoreId(1) /\ chat.messages[2].id = StoreId(2)
    /\ Len(MessagesOf(1)) = 4

\* C30: ChatInput calls onSend only with a message that has a character
\* other than whitespace, and with the trimmed text; a press while isSending
\* or disabled calls nothing; at most one onSend call is unsettled at any
\* time; and when the call settles, resolved or rejected, isSending is false.
C30_OneSendAtATimeNeverBlank ==
    [][ /\ \A i \in DOMAIN input'.calls :
             /\ \E k \in DOMAIN input'.calls[i] : input'.calls[i][k] \notin Whitespace
             /\ Head(input'.calls[i]) \notin Whitespace
             /\ input'.calls[i][Len(input'.calls[i])] \notin Whitespace
        /\ input'.pending <= 1
        /\ (input.isSending \/ input.disabled) => input'.calls = input.calls
        /\ input'.calls # input.calls =>
             /\ input.pending = 0
             /\ input'.isSending
             /\ input'.message = <<>>
        /\ input'.pending < input.pending => ~input'.isSending
        /\ input'.isSending => input'.pending = 1 ]_vars

C30_Witness ==
    /\ input.calls = << <<"a", " ", "b">>, <<"a">> >>
    /\ input.pending = 0
    /\ ~input.isSending
    /\ input.disabled
    /\ input.message = <<" ", "\n">>

====
